---- MODULE Spec2Model ----
(***************************************************************************)
(* Model of the source-discovery pipeline of Data_Extraction_Challenge:    *)
(*   WebScraperModule.scrape_financial_sources  (the orchestrator),        *)
(*   PromptGenerator.call / PromptTuner.call    (the model invoker),       *)
(*   WebScraperModule.is_page_not_found         (the web probe),           *)
(*   WebScraperModule.ai_web_scraping / load_and_run_code (code runner),   *)
(* and of the services around it, each under a specification of its own:   *)
(*   PromptGenerator.optimize_prompt            (SpecOptimize),            *)
(*   ResultValidator.validate_result            (SpecValidate),            *)
(*   FinancialSourcesFinder.find_financial_source (SpecFinder).            *)
(* The generative-model provider, the HTTP GET, the file system and the    *)
(* synthesized routine are collaborators: each of their outcomes is a      *)
(* nondeterministic choice of the action that consults them.               *)
(***************************************************************************)
EXTENDS Integers, Sequences, FiniteSets, TLC

\* ------------------------------------------------------------------ bounds
\* largest configured max_retries explored (scraping and model config)
MaxRetries == 2
\* optimize_prompt calls explored, all companies together
MaxOptCalls == 7
\* longest validation answer explored, in tokens
MaxTextLen == 4
\* most fragments a company name given to generate_prompt is made of
MaxNameParts == 2

\* ------------------------------------------------------- program constants
DefaultDelay == 60
\* optimize_prompt: `if self.optimization_counter[company_name] > 5`
MaxOptimizations == 5
\* optimize_prompt: `len(optimized_prompt) < 100`
MinPromptLen == 100
\* find_financial_source: `if len(data) > 5`
ReportGuard == 5

\* ---------------------------------------------------------- value universe
\* Python None, as a string so that it can sit in a tuple next to other values
NoneV == "None"
PageFound == "Page found"
PageNotFound == "Page not found"

Companies == {"Acme Corp"}
SourceTypes == {"Annual Report", "Quarterly Report"}
ModelPool == {"m1", "m2"}
Urls == {"u1", "u2"}
\* status codes a GET may answer with
StatusCodes == {200, 403, 404, 500}

\* the delay a quota-exceeded error carries: no retry_delay attribute, a
\* retry_delay with a .seconds attribute, or a retry_delay without one
Delays ==
  { [kind |-> "absent", seconds |-> 0],
    [kind |-> "seconds", seconds |-> 7],
    [kind |-> "seconds", seconds |-> 30],
    [kind |-> "bare", seconds |-> 9] }

\* ------------------------------------------------ dicts (insertion-ordered)
\* a dict is a sequence of <<key, value>> pairs with distinct keys
Get(d, k) ==
  IF \E i \in 1..Len(d) : d[i][1] = k
    THEN d[CHOOSE i \in 1..Len(d) : d[i][1] = k][2]
    ELSE NoneV

SetItem(d, k, v) ==
  IF \E i \in 1..Len(d) : d[i][1] = k
    THEN [i \in 1..Len(d) |-> IF d[i][1] = k THEN <<k, v>> ELSE d[i]]
    ELSE Append(d, <<k, v>>)

Values(d) == [i \in 1..Len(d) |-> d[i][2]]

\* Python truthiness of a url value (None and "" are falsy)
Truthy(u) == u \notin {NoneV, ""}

StdDict(u) == << <<"url", u>>, <<"year", "2023">>, <<"confidence", "HIGH">>, <<"notes", "n">> >>

\* the objects a model answer or a synthesized routine may produce
Dicts ==
  { StdDict("u1"), StdDict("u2"),
    << <<"url", "u1">>, <<"year", "2023">> >>,
    Append(StdDict("u2"), <<"extra", "x">>),
    << <<"year", "2023">>, <<"confidence", "HIGH">>, <<"notes", "n">>, <<"extra", "x">> >>,
    << <<"year", "2022">>, <<"url", "u1">>, <<"confidence", "LOW">>, <<"notes", "n">> >>,
    StdDict(""),
    << >> }

\* a Python value held by the local `data`
Unbound == [kind |-> "unbound", items |-> << >>]
PyNone == [kind |-> "none", items |-> << >>]
NonDict == [kind |-> "nondict", items |-> << >>]
PyDict(d) == [kind |-> "dict", items |-> d]

\* ------------------------------------------------------------ model answers
\* text of a response: `beh` is what the text does when run as a routine
Text(k, d, b) == [kind |-> k, items |-> d, beh |-> b]

\* answers to a lookup prompt: .text raising, blank, undecodable, JSON that is
\* not an object, JSON object
LookupTexts ==
  { Text("raises", << >>, ""), Text("empty", << >>, ""), Text("garbage", << >>, ""),
    Text("nonobject", << >>, "") }
  \cup { Text("object", d, "") : d \in Dicts }

\* what a synthesized routine does when executed
Behaviours == {"raise", "exit", "nobind", "bindnone", "bindnondict", "binddict"}

\* answers to a code-synthesis prompt
CodeTexts ==
  { Text("raises", << >>, ""), Text("empty", << >>, "") }
  \cup { Text("code", << >>, b) : b \in Behaviours \ {"binddict"} }
  \cup { Text("code", d, "binddict") : d \in Dicts }

NoText == Text("empty", << >>, "")
NoResponse == [kind |-> "none", text |-> Text("empty", << >>, "")]
Response(t) == [kind |-> "response", text |-> t]

\* the PromptGenerator and the PromptTuner of one WebScraperModule
Invokers == {"generator", "tuner"}

NoPrompt == [kind |-> "", company |-> "", source_type |-> "", url |-> ""]
NoSynth == [items |-> << >>, probed |-> "none"]
NoProbe == [url |-> "", exc |-> FALSE, status |-> 0, dead |-> FALSE]

\* ------------------------------------ values of PromptGenerator.optimize_prompt
OptCompanies == {"Acme Corp", "Globex"}

HasKey(d, k) == \E i \in 1..Len(d) : d[i][1] = k

\* the scraping_results argument: None, or a tuple (url, year, desc, conf)
ScrapingResults ==
  { << >>,
    << NoneV, NoneV, NoneV, NoneV >>,
    << "u1", "2023", "Annual Report", "HIGH" >> }

\* what self.model.generate_content and response.text give optimize_prompt:
\* an exception from the call, an exception from the .text accessor, or a
\* text of `pad` blanks around `body` characters, with or without the literal
\* "{company_name}" in it
ModelAnswers ==
  { [kind |-> k, body |-> 0, pad |-> 0, placeholder |-> FALSE] : k \in {"raises", "text_raises"} }
  \cup { t \in [kind : {"text"}, body : {0, MinPromptLen - 1, MinPromptLen},
                 pad : {0, 1}, placeholder : BOOLEAN] :
           /\ t.placeholder => t.body > 0
           /\ t.pad = 1 => t.placeholder }

NoAnswer == [kind |-> "", body |-> 0, pad |-> 0, placeholder |-> FALSE]

NoOptPrompt ==
  [kind |-> "", company |-> "", source_type |-> "", hints |-> "", domain |-> "",
   year |-> "", conf |-> "", body |-> 0, pad |-> 0, placeholder |-> FALSE]

NoOptCall ==
  [company |-> "", counter |-> 0, invoked |-> FALSE, results |-> << >>,
   answer |-> NoAnswer, returned |-> NoOptPrompt]

\* ---------------------------------- values of ResultValidator.validate_result
\* a validation answer is a text of tokens: braces, the body of a verdict
\* object ("kv"), prose ("x"), and the numbers 7 and 0
Tokens == {"{", "}", "kv", "x", "7", "0"}
Texts == UNION { [1..n -> Tokens] : n \in 0..MaxTextLen }

ValidationAnswers ==
  { [kind |-> k, text |-> << >>] : k \in {"raises", "falsy", "text_raises", "text_none"} }
  \cup { [kind |-> "text", text |-> t] : t \in Texts }

NoValAnswer == [kind |-> "", text |-> << >>]

\* a value json.loads gives that is neither a dict nor truthy (the number 0)
PyZero == [kind |-> "zero", items |-> << >>]
\* json.JSONDecodeError
JsonError == [kind |-> "error", items |-> << >>]

\* the object the model is asked for
ModelVerdict ==
  << <<"is_valid", TRUE>>, <<"validation_score", 90>>, <<"feedback", "ok">>,
     <<"improvement_suggestions", "none">> >>

DefaultVerdict(fb, sugg) ==
  << <<"is_valid", FALSE>>, <<"validation_score", 0>>, <<"feedback", fb>>,
     <<"improvement_suggestions", sugg>> >>

NoValidation ==
  [called |-> FALSE, built |-> FALSE, answer |-> NoValAnswer, modelCalls |-> 0,
   verdict |-> PyNone]

\* ------------------------- values of FinancialSourcesFinder.find_financial_source
\* report_data.json: missing, or holding a JSON value
NoFile == [kind |-> "absent", items |-> << >>]
ListFile(l) == [kind |-> "list", items |-> l]

NoFind == [kind |-> "", scraped |-> FALSE, value |-> << >>]

\* --- batch universe: the requests of one batch that are in flight together
Workers == {"w1", "w2"}

\* --- generate_prompt universe
\* a company name is a string of characters, built here from a few fragments
NameParts ==
  { << "S", "A", "P" >>, << "s", "a", "p" >>, << "B", "m", "w" >>,
    << "K", "o", "n", "e" >>, << "c", "r", "a", "n", "e", "s" >>,
    << "A", "c", "m", "e" >>, << " " >>, << "O", "y", "j" >> }

RECURSIVE Flatten(_)
Flatten(q) == IF q = << >> THEN << >> ELSE Head(q) \o Flatten(Tail(q))

CompanyNames ==
  { Flatten(q) : q \in UNION { [1..n -> NameParts] : n \in 1..MaxNameParts } }

NoGenPrompt == [kind |-> "", company |-> << >>, source_type |-> "", optimization |-> ""]
NoGenerate == [called |-> FALSE, company |-> << >>, source_type |-> "", prompt |-> NoGenPrompt]

\* --- main universe
\* the ID column of the dataset's rows
RowIds == {1, 2}
\* the VARIABLE column
RowVariables == {"Annual Report"}
NoRow == [kind |-> "", id |-> 0, entry |-> << >>]

VARIABLES
  scraperMaxRetries,  \* WebScraperModule.max_retries
  modelMaxRetries,    \* PromptGenerator.max_retries / PromptTuner.max_retries
  company,            \* company_name of the call in progress
  sourceType,         \* source_type of the call in progress
  pc,                 \* position inside scrape_financial_sources
  attempt,            \* local attempt
  attemptWs,          \* local attempt_web_scraping
  url,                \* local url
  data,               \* local data
  callee,             \* which invoker is running: "generator" or "tuner"
  callPurpose,        \* who waits for the call: "base", "tuned" or "scrape"
  retries,            \* local retries of call
  selectedModelName,  \* self.selected_model_name of each invoker
  model,              \* self.model of each invoker: the identifier its handle was built for
  prompt,             \* prompt of the call in progress
  callLog,            \* provider attempts of the call in progress
  sleepLog,           \* time.sleep arguments of the call in progress
  selections,         \* inizialize_model calls of the call in progress
  callResult,         \* value returned by the last call
  runnerResult,       \* value returned by the last ai_web_scraping
  ranRoutine,         \* the code text the last ai_web_scraping executed
  runFault,           \* how the last ai_web_scraping ended
  lastProbe,          \* is_page_not_found of the attempt in progress: url, GET outcome, answer
  aliveUrls,          \* urls that probed alive during this call
  aiAttempts,         \* AI-lookup attempts started
  aiDead,             \* AI-lookup attempts that produced a url the probe found dead
  synthAttempts,      \* synthesis attempts started
  firstSynth,         \* candidate and probe answer of the first synthesis attempt
  ret,                \* returned tuple
  retData,            \* the dict the returned tuple was taken from
  raised              \* exception that left scrape_financial_sources

\* state of the services around the orchestrator
VARIABLES
  optimization_counter,      \* PromptGenerator.optimization_counter
  company_specific_prompts,  \* PromptGenerator.company_specific_prompts
  optCalls,                  \* optimize_prompt calls made, per company
  optModelCalls,             \* generate_content calls made by optimize_prompt, per company
  optLast,                   \* the last optimize_prompt call: arguments, model answer, returned prompt
  valLast,                   \* the last validate_result call: model answer, calls made, returned verdict
  reports,                   \* reports/<company>/report_data.json of each company
  findLast,                  \* the last find_financial_source call: what it did and returned
  wpc,                       \* batch: where each in-flight request stands in PromptGenerator.call
  wSel,                      \* batch: the identifier each request's own inizialize_model selected
  wUsed,                     \* batch: the identifier behind self.model at each request's last generate_content
  wRetries,                  \* batch: retries of each request's call
  genLast,                   \* the last generate_prompt call: arguments and returned prompt
  mainFile,                  \* main: reports/<NAME>_report.json of the dataset's company
  mainLast                   \* main: the last dataset row handled: what was done and the entry built

optVars == << optimization_counter, company_specific_prompts, optCalls, optModelCalls, optLast >>
valVars == << valLast >>
finderVars == << reports, findLast >>
batchVars == << wpc, wSel, wUsed, wRetries >>
genVars == << genLast >>
mainVars == << mainFile, mainLast >>
hostVars == << optVars, valVars, finderVars, batchVars, genVars, mainVars >>

\* the orchestrator's state apart from the generator's model handle
orchRest ==
  << scraperMaxRetries, modelMaxRetries, company, sourceType, pc, attempt,
     attemptWs, url, data, callee, callPurpose, retries, prompt,
     callLog, sleepLog, selections, callResult, runnerResult, ranRoutine,
     runFault, lastProbe, aliveUrls, aiAttempts, aiDead, synthAttempts, firstSynth, ret,
     retData, raised >>
orchVars == << orchRest, selectedModelName, model >>

vars == << orchVars, hostVars >>

configVars == << scraperMaxRetries, modelMaxRetries >>
requestVars == << company, sourceType >>
callVars == << callee, callPurpose, retries, selectedModelName, model, prompt, callLog, sleepLog, selections, callResult >>
runnerVars == << runnerResult, ranRoutine, runFault >>
probeVars == << lastProbe, aliveUrls >>
attemptVars == << aiAttempts, aiDead, synthAttempts, firstSynth >>
resultVars == << ret, retData, raised >>

\* state after PromptGenerator.__init__: no counter, no stored prompt
InitOptimize ==
  /\ optimization_counter = << >>
  /\ company_specific_prompts = << >>
  /\ optCalls = [c \in OptCompanies |-> 0]
  /\ optModelCalls = [c \in OptCompanies |-> 0]
  /\ optLast = NoOptCall

\* no validate_result call yet
InitValidator == valLast = NoValidation

\* no report file, no find_financial_source call yet
InitFinder ==
  /\ reports = [c \in Companies |-> NoFile]
  /\ findLast = NoFind

\* no request of a batch in flight
InitBatch ==
  /\ wpc = [w \in Workers |-> "idle"]
  /\ wSel = [w \in Workers |-> "unset"]
  /\ wUsed = [w \in Workers |-> "unset"]
  /\ wRetries = [w \in Workers |-> 0]

\* no generate_prompt call yet
InitGenerate == genLast = NoGenerate

\* main before its first row: no per-company report file
InitMain ==
  /\ mainFile = NoFile
  /\ mainLast = NoRow

\* state after WebScraperModule.__init__
InitOrchestrator ==
  /\ scraperMaxRetries \in 0..MaxRetries
  /\ modelMaxRetries \in 0..MaxRetries
  /\ company = ""
  /\ sourceType = ""
  /\ pc = "idle"
  /\ attempt = 0
  /\ attemptWs = 0
  /\ url = ""
  /\ data = Unbound
  /\ callee = ""
  /\ callPurpose = ""
  /\ retries = 0
  /\ selectedModelName = [o \in Invokers |-> "unset"]
  /\ model = [o \in Invokers |-> "unset"]
  /\ prompt = NoPrompt
  /\ callLog = << >>
  /\ sleepLog = << >>
  /\ selections = 0
  /\ callResult = NoResponse
  /\ runnerResult = Unbound
  /\ ranRoutine = NoText
  /\ runFault = ""
  /\ lastProbe = NoProbe
  /\ aliveUrls = {}
  /\ aiAttempts = 0
  /\ aiDead = 0
  /\ synthAttempts = 0
  /\ firstSynth = NoSynth
  /\ ret = << >>
  /\ retData = << >>
  /\ raised = ""

Init ==
  /\ InitOrchestrator
  /\ InitOptimize
  /\ InitValidator
  /\ InitFinder
  /\ InitBatch
  /\ InitGenerate
  /\ InitMain

\* ------------------------------------------------------------------ prompts
\* variant: the base prompt is rendered for the requested category
BasePromptRequestedCategory(c) ==
  [kind |-> "base", company |-> c, source_type |-> sourceType, url |-> ""]

\* PromptGenerator.generate_prompt as called by find_company_website_with_ai:
\* the category is the literal "Annual Report"
BasePrompt(c) == [kind |-> "base", company |-> c, source_type |-> "Annual Report", url |-> ""]

\* PromptTuner.improve_prompt(report_url, company_name)
ImprovePrompt(u, c) == [kind |-> "tuned", company |-> c, source_type |-> "", url |-> u]

\* PromptGenerator.generate_web_scraping_prompt(company_name, source_type)
WebScrapingPrompt(c, st) == [kind |-> "scrape", company |-> c, source_type |-> st, url |-> ""]

\* ---------------------------------------------- ModelInvoker.call (both copies)
\* variant: the name is picked but the handle is not rebuilt
InizializeModelStale(mdl, o, m) == mdl

\* inizialize_model: pick a name, build the handle for it
InizializeModel(mdl, o, m) == [mdl EXCEPT ![o] = m]

\* variant: the suggested delay is ignored
QuotaDelayAlwaysDefault(d) == DefaultDelay

\* seconds slept after a quota-exceeded error carrying delay d
QuotaDelay(d) == IF d.kind = "seconds" THEN d.seconds ELSE DefaultDelay

\* variant: any failure is retried
AttemptDispositionRetryOnError(outcome) ==
  CASE outcome = "response" -> "return"
    [] outcome = "quota" -> "sleep_retry"
    [] OTHER -> "retry"

\* what the loop body does after a provider attempt
AttemptDisposition(outcome) ==
  CASE outcome = "response" -> "return"
    [] outcome = "quota" -> "sleep_retry"
    [] outcome = "falsy" -> "retry"
    [] outcome = "error" -> "break"

\* the texts the provider may answer a prompt with
TextsFor(purpose) == IF purpose = "scrape" THEN CodeTexts ELSE LookupTexts

\* entry of call(prompt): retries = 0, inizialize_model(); a call opens an
\* attempt, whose probe has not happened yet
BeginCall(o, purpose, p) ==
  /\ callee' = o
  /\ callPurpose' = purpose
  /\ prompt' = p
  /\ retries' = 0
  /\ \E m \in ModelPool :
       /\ selectedModelName' = [selectedModelName EXCEPT ![o] = m]
       /\ model' = InizializeModel(model, o, m)
  /\ selections' = 1
  /\ callLog' = << >>
  /\ sleepLog' = << >>
  /\ UNCHANGED callResult
  /\ lastProbe' = NoProbe
  /\ pc' = "call"

LogEntry(outcome, d) == [outcome |-> outcome, delay |-> d, model |-> model[callee]]
NoDelay == [kind |-> "absent", seconds |-> 0]

\* one iteration of `while retries < self.max_retries`
CallAttempt ==
  /\ UNCHANGED hostVars
  /\ pc = "call"
  /\ retries < modelMaxRetries
  /\ \E outcome \in {"response", "quota", "falsy", "error"} :
     \E d \in (IF outcome = "quota" THEN Delays ELSE {NoDelay}) :
     \E t \in (IF outcome = "response" THEN TextsFor(callPurpose) ELSE {Text("empty", << >>, "")}) :
       /\ callLog' = Append(callLog, LogEntry(outcome, d))
       /\ sleepLog' = IF AttemptDisposition(outcome) = "sleep_retry"
                        THEN Append(sleepLog, QuotaDelay(d)) ELSE sleepLog
       /\ CASE AttemptDisposition(outcome) = "return" ->
                 /\ callResult' = Response(t)
                 /\ pc' = "after_call"
                 /\ UNCHANGED retries
            [] AttemptDisposition(outcome) = "break" ->
                 /\ callResult' = NoResponse
                 /\ pc' = "after_call"
                 /\ UNCHANGED retries
            [] OTHER ->
                 /\ retries' = retries + 1
                 /\ UNCHANGED << callResult, pc >>
  /\ UNCHANGED << configVars, requestVars, attempt, attemptWs, url, data, callee,
                  callPurpose, selectedModelName, model, prompt, selections,
                  runnerVars, probeVars, attemptVars, resultVars >>

\* the loop ends with retries = max_retries: return None
CallExhausted ==
  /\ UNCHANGED hostVars
  /\ pc = "call"
  /\ ~(retries < modelMaxRetries)
  /\ callResult' = NoResponse
  /\ pc' = "after_call"
  /\ UNCHANGED << configVars, requestVars, attempt, attemptWs, url, data, callee,
                  callPurpose, retries, selectedModelName, model, prompt, callLog,
                  sleepLog, selections, runnerVars, probeVars, attemptVars,
                  resultVars >>

\* the caller takes the returned value: the frame of call is gone
ConsumeCall ==
  /\ retries' = 0
  /\ callLog' = << >>
  /\ sleepLog' = << >>
  /\ selections' = 0
  /\ callResult' = NoResponse
  /\ UNCHANGED << callee, callPurpose, selectedModelName, model, prompt >>

\* ---------------------------------------------------------------- WebProbe
\* outcome of session.get(url, timeout): a status code or a RequestException;
\* requests rejects a url without a scheme (None, "") with MissingSchema,
\* which is a RequestException, before anything is sent
GetOutcomes(u) ==
  IF Truthy(u)
    THEN { [exc |-> FALSE, status |-> c] : c \in StatusCodes } \cup { [exc |-> TRUE, status |-> 0] }
    ELSE { [exc |-> TRUE, status |-> 0] }

\* variant: only 404 counts as dead
IsPageNotFound404Only(g) == IF g.exc THEN TRUE ELSE g.status = 404

\* is_page_not_found: True on RequestException, else status_code in (403, 404)
IsPageNotFound(g) == IF g.exc THEN TRUE ELSE g.status \in {403, 404}

Probe(u, g) == [url |-> u, exc |-> g.exc, status |-> g.status, dead |-> IsPageNotFound(g)]

\* ---------------------------------------------------- CodeSynthesisRunner
\* the namespace after exec: the three preset names plus what the routine bound
ModuleVars(t) ==
  << <<"__file__", PyNone>>, <<"__name__", NonDict>>, <<"__package__", PyNone>> >>
  \o (CASE t.beh = "bindnone" -> << <<"result", PyNone>> >>
        [] t.beh = "bindnondict" -> << <<"result", NonDict>> >>
        [] t.beh = "binddict" -> << <<"result", PyDict(t.items)>> >>
        [] OTHER -> << >>)

\* module_vars.get(name): None when the name is not bound
VarsGet(mv, name) ==
  IF \E i \in 1..Len(mv) : mv[i][1] = name
    THEN mv[CHOOSE i \in 1..Len(mv) : mv[i][1] = name][2]
    ELSE PyNone

\* variant: the wrong name is read back
LoadAndRunCodeWrongName(t) ==
  IF t.beh = "raise" THEN PyNone ELSE VarsGet(ModuleVars(t), "results")

\* load_and_run_code on a routine that does not leave through BaseException:
\* an Exception gives None, otherwise the binding of `result`
LoadAndRunCode(t) ==
  IF t.beh = "raise" THEN PyNone ELSE VarsGet(ModuleVars(t), "result")

\* ------------------------------------------ scrape_financial_sources
Sentinel == << NoneV, NoneV, NoneV, NoneV, PageNotFound >>

\* `if not url or self.is_page_not_found(url)` negated: the lookup loop accepts
AiAccepts(u, g) == Truthy(u) /\ ~IsPageNotFound(g)

\* variant: the two tags are swapped
SynthStatusSwapped(g) == IF IsPageNotFound(g) THEN PageFound ELSE PageNotFound

\* the tag the fallback loop gives a probed candidate
SynthStatus(g) == IF IsPageNotFound(g) THEN PageNotFound ELSE PageFound

\* variant: the length check counts the fields without the tag
FinalResultLen4(dt) ==
  IF dt.kind = "none" \/ dt.items = << >> THEN Sentinel
  ELSE IF Len(Values(dt.items)) # 4 THEN Sentinel
  ELSE Values(dt.items)

\* the value the last three statements return for a bound `data`
FinalResult(dt) ==
  IF dt.kind = "none" \/ dt.items = << >> THEN Sentinel
  ELSE IF Len(Values(dt.items)) # 5 THEN Sentinel
  ELSE Values(dt.items)

Raise(e) ==
  /\ pc' = "raised"
  /\ raised' = e
  /\ UNCHANGED << ret, retData >>

Return(d, t) ==
  /\ pc' = "returned"
  /\ ret' = t
  /\ retData' = d
  /\ UNCHANGED raised

\* entry: attempt = 0, cleaned_response = None, url = ""
Start ==
  /\ UNCHANGED hostVars
  /\ pc = "idle"
  /\ \E c \in Companies, st \in SourceTypes :
       /\ company' = c
       /\ sourceType' = st
  /\ attempt' = 0
  /\ url' = ""
  /\ pc' = "ai_head"
  /\ UNCHANGED << configVars, attemptWs, data, callVars, runnerVars, probeVars,
                  attemptVars, resultVars >>

\* `while attempt < self.max_retries`: the lookup of this attempt
AiLookup ==
  /\ UNCHANGED hostVars
  /\ pc = "ai_head"
  /\ attempt < scraperMaxRetries
  /\ aiAttempts' = aiAttempts + 1
  /\ IF attempt = 0
       THEN BeginCall("generator", "base", BasePrompt(company))
       ELSE BeginCall("tuner", "tuned", ImprovePrompt(url, company))
  /\ UNCHANGED << configVars, requestVars, attempt, attemptWs, url, data,
                  runnerVars, aliveUrls, aiDead, synthAttempts, firstSynth, resultVars >>

\* the rest of the try block after the model call, up to the probe
AiAfterCall ==
  /\ UNCHANGED hostVars
  /\ pc = "after_call"
  /\ callPurpose \in {"base", "tuned"}
  /\ LET t == callResult.text
         \* no response, .text raising, or a blank text: next attempt
         noText == callResult.kind = "none" \/ t.kind \in {"raises", "empty"}
     IN  CASE noText \/ t.kind = "garbage" ->
                /\ attempt' = attempt + 1
                /\ pc' = "ai_head"
                /\ UNCHANGED << url, data >>
           [] t.kind = "nonobject" ->
                \* data.get raises AttributeError, caught by the except clause
                /\ data' = NonDict
                /\ attempt' = attempt + 1
                /\ pc' = "ai_head"
                /\ UNCHANGED url
           [] OTHER ->
                /\ data' = PyDict(t.items)
                /\ url' = Get(t.items, "url")
                /\ IF Truthy(url')
                     THEN pc' = "ai_probe" /\ UNCHANGED attempt
                     ELSE pc' = "ai_head" /\ attempt' = attempt + 1
  /\ ConsumeCall
  /\ UNCHANGED << configVars, requestVars, attemptWs, runnerVars, probeVars,
                  attemptVars, resultVars >>

\* `self.is_page_not_found(url)` of the lookup loop, then accept or go on
AiProbe ==
  /\ UNCHANGED hostVars
  /\ pc = "ai_probe"
  /\ \E g \in GetOutcomes(url) :
       /\ lastProbe' = Probe(url, g)
       /\ IF AiAccepts(url, g)
            THEN /\ aliveUrls' = aliveUrls \cup {url}
                 /\ data' = PyDict(SetItem(data.items, "response_status", PageFound))
                 /\ Return(data'.items, Values(data'.items))
                 /\ UNCHANGED << attempt, aiDead >>
            ELSE /\ attempt' = attempt + 1
                 /\ aiDead' = aiDead + 1
                 /\ pc' = "ai_head"
                 /\ UNCHANGED << data, aliveUrls, resultVars >>
  /\ UNCHANGED << configVars, requestVars, attemptWs, url, callVars, runnerVars,
                  aiAttempts, synthAttempts, firstSynth >>

\* the lookup loop ends: attempt_web_scraping = 0
FallBack ==
  /\ UNCHANGED hostVars
  /\ pc = "ai_head"
  /\ ~(attempt < scraperMaxRetries)
  /\ attemptWs' = 0
  /\ pc' = "synth_head"
  /\ UNCHANGED << configVars, requestVars, attempt, url, data, callVars,
                  runnerVars, probeVars, attemptVars, resultVars >>

\* `while attempt_web_scraping < self.max_retries`: ai_web_scraping asks for code
SynthLookup ==
  /\ UNCHANGED hostVars
  /\ pc = "synth_head"
  /\ attemptWs < scraperMaxRetries
  /\ synthAttempts' = synthAttempts + 1
  /\ BeginCall("generator", "scrape", WebScrapingPrompt(company, sourceType))
  /\ UNCHANGED << configVars, requestVars, attempt, attemptWs, url, data,
                  runnerVars, aliveUrls, aiAttempts, aiDead, firstSynth, resultVars >>

\* variant: save_code sits outside the try
RunnerDispositionSaveUnguarded(t, fs) ==
  CASE fs = "mkdir_fails" -> "propagate"
    [] fs = "write_fails" -> "propagate"
    [] t.beh = "exit" -> "propagate"
    [] OTHER -> "value"

\* what ai_web_scraping does with code text t under file-system outcome fs:
\* mkdir is outside any try, save_code inside one, and load_and_run_code
\* catches Exception only, so SystemExit leaves
RunnerDisposition(t, fs) ==
  CASE fs = "mkdir_fails" -> "propagate"
    [] fs = "write_fails" -> "none"
    [] t.beh = "exit" -> "propagate"
    [] OTHER -> "value"

\* ai_web_scraping after the model call: save the code, load and run it
RunSynthesis ==
  /\ UNCHANGED hostVars
  /\ pc = "after_call"
  /\ callPurpose = "scrape"
  /\ LET t == callResult.text
     IN  CASE callResult.kind = "none" \/ t.kind = "empty" ->
                /\ runnerResult' = PyNone
                /\ runFault' = "noresponse"
                /\ pc' = "synth_got"
                /\ UNCHANGED << ranRoutine, resultVars >>
           [] t.kind = "raises" ->
                \* hasattr lets the ValueError of the .text accessor through
                /\ Raise("ValueError")
                /\ runFault' = "text_raises"
                /\ UNCHANGED << runnerResult, ranRoutine >>
           [] OTHER ->
                \E fs \in {"ok", "mkdir_fails", "write_fails"} :
                  /\ runFault' = IF fs # "ok" THEN fs
                                 ELSE IF t.beh \in {"raise", "exit"} THEN t.beh
                                 ELSE "ran"
                  /\ CASE RunnerDisposition(t, fs) = "propagate" ->
                            /\ Raise(IF fs = "mkdir_fails" THEN "OSError"
                                     ELSE IF fs = "write_fails" THEN "OSError"
                                     ELSE "SystemExit")
                            /\ UNCHANGED << runnerResult, ranRoutine >>
                       [] RunnerDisposition(t, fs) = "none" ->
                            /\ runnerResult' = PyNone
                            /\ pc' = "synth_got"
                            /\ UNCHANGED << ranRoutine, resultVars >>
                       [] OTHER ->
                            /\ ranRoutine' = t
                            /\ runnerResult' = LoadAndRunCode(t)
                            /\ pc' = "synth_got"
                            /\ UNCHANGED resultVars
  /\ ConsumeCall
  /\ UNCHANGED << configVars, requestVars, attempt, attemptWs, url, data,
                  probeVars, attemptVars >>

\* `data = self.ai_web_scraping(...)` and the lines up to the probe
SynthGot ==
  /\ UNCHANGED hostVars
  /\ pc = "synth_got"
  /\ data' = runnerResult
  /\ CASE runnerResult.kind = "none" ->
            /\ attemptWs' = attemptWs + 1
            /\ pc' = "synth_head"
            /\ UNCHANGED << url, resultVars >>
       [] runnerResult.kind = "nondict" ->
            \* data.get raises AttributeError outside any try
            /\ Raise("AttributeError")
            /\ UNCHANGED << url, attemptWs >>
       [] OTHER ->
            /\ url' = Get(runnerResult.items, "url")
            /\ pc' = "synth_probe"
            /\ UNCHANGED << attemptWs, resultVars >>
  /\ runnerResult' = Unbound
  /\ ranRoutine' = NoText
  /\ runFault' = ""
  /\ UNCHANGED << configVars, requestVars, attempt, callVars, probeVars, attemptVars >>

\* the probe of the synthesized candidate: tag it, break when found
SynthProbe ==
  /\ UNCHANGED hostVars
  /\ pc = "synth_probe"
  /\ \E g \in GetOutcomes(url) :
       /\ lastProbe' = Probe(url, g)
       /\ data' = PyDict(SetItem(data.items, "response_status", SynthStatus(g)))
       /\ firstSynth' = IF synthAttempts = 1
                          THEN [items |-> data.items,
                                probed |-> IF g.exc \/ g.status \in {403, 404}
                                             THEN "dead" ELSE "alive"]
                          ELSE firstSynth
       /\ IF SynthStatus(g) = PageFound
            THEN /\ aliveUrls' = aliveUrls \cup {url}
                 /\ pc' = "final"
                 /\ UNCHANGED attemptWs
            ELSE /\ attemptWs' = attemptWs + 1
                 /\ pc' = "synth_head"
                 /\ UNCHANGED aliveUrls
  /\ UNCHANGED << configVars, requestVars, attempt, url, callVars, runnerVars,
                  aiAttempts, aiDead, synthAttempts, resultVars >>

\* the fallback loop ends without a break
SynthExhausted ==
  /\ UNCHANGED hostVars
  /\ pc = "synth_head"
  /\ ~(attemptWs < scraperMaxRetries)
  /\ pc' = "final"
  /\ UNCHANGED << configVars, requestVars, attempt, attemptWs, url, data, callVars,
                  runnerVars, probeVars, attemptVars, resultVars >>

\* `if not data` ... `return tuple(data.values())`
Final ==
  /\ UNCHANGED hostVars
  /\ pc = "final"
  /\ IF data.kind = "unbound"
       THEN Raise("UnboundLocalError")
       ELSE Return(data.items, FinalResult(data))
  /\ UNCHANGED << configVars, requestVars, attempt, attemptWs, url, data, callVars,
                  runnerVars, probeVars, attemptVars >>

Next ==
  \/ Start
  \/ AiLookup
  \/ CallAttempt
  \/ CallExhausted
  \/ AiAfterCall
  \/ AiProbe
  \/ FallBack
  \/ SynthLookup
  \/ RunSynthesis
  \/ SynthGot
  \/ SynthProbe
  \/ SynthExhausted
  \/ Final

Spec == Init /\ [][Next]_vars

\* scrape_financial_sources runs on one thread and every collaborator it
\* waits for returns or raises in finite time: a step that can be taken is
\* eventually taken
SpecLive == Init /\ [][Next]_vars /\ WF_vars(Next)

\* ------------------------------------------ PromptGenerator.optimize_prompt
RECURSIVE SumFn(_, _)
SumFn(f, S) ==
  IF S = {} THEN 0
  ELSE LET x == CHOOSE y \in S : TRUE IN f[x] + SumFn(f, S \ {x})

\* str.strip(): the blanks around the text go
Strip(t) == [t EXCEPT !.pad = 0]

\* variant: the counter stops at the limit
IncrementCounterCapped(d, c) ==
  LET d0 == IF HasKey(d, c) THEN d ELSE SetItem(d, c, 0)
  IN  IF Get(d0, c) >= MaxOptimizations THEN d0 ELSE SetItem(d0, c, Get(d0, c) + 1)

\* variant: the dict is rebuilt with the called company's entry only
IncrementCounterDropsOthers(d, c) ==
  << << c, (IF HasKey(d, c) THEN Get(d, c) ELSE 0) + 1 >> >>

\* `if company_name not in self.optimization_counter: ... = 0` and `+= 1`
IncrementCounter(d, c) ==
  LET d0 == IF HasKey(d, c) THEN d ELSE SetItem(d, c, 0)
  IN  SetItem(d0, c, Get(d0, c) + 1)

\* variant: one more attempt is let through
ShortCircuitLate(n) == n > MaxOptimizations + 1

\* `if self.optimization_counter[company_name] > 5`
ShortCircuit(n) == n > MaxOptimizations

\* urlparse(url).netloc
Netloc(u) == CASE u = "u1" -> "host1" [] u = "u2" -> "host2" [] OTHER -> ""

\* _generate_scraping_based_prompt: the base template with generic advice
\* when there is nothing to go on, otherwise with the hints of the results
GenerateScrapingBasedPrompt(c, sr) ==
  IF Len(sr) = 0 \/ ~\E i \in 1..Len(sr) : Truthy(sr[i])
    THEN [NoOptPrompt EXCEPT !.kind = "scraping_based", !.company = c,
                             !.source_type = "Annual Report", !.hints = "generic"]
    ELSE [NoOptPrompt EXCEPT !.kind = "scraping_based", !.company = c,
                             !.source_type = IF Truthy(sr[3]) THEN sr[3] ELSE "Annual Report",
                             !.hints = "results",
                             !.domain = IF Truthy(sr[1]) THEN Netloc(sr[1]) ELSE "",
                             !.year = IF Truthy(sr[2]) THEN sr[2] ELSE "",
                             !.conf = sr[4]]

\* the accepted rewrite as a prompt: the text as it is, placeholder unfilled
RewritePrompt(t) ==
  [NoOptPrompt EXCEPT !.kind = "rewrite", !.body = t.body, !.pad = t.pad,
                      !.placeholder = t.placeholder]

\* variant: only the length is looked at
AcceptRewriteLengthOnly(t) == ~(t.body < MinPromptLen)

\* `if len(optimized_prompt) < 100 or "{company_name}" not in optimized_prompt`
\* negated
AcceptRewrite(t) == ~(t.body < MinPromptLen \/ ~t.placeholder)

\* inizialize_model as run by an earlier call(): self.model gets a handle
OptInizializeModel ==
  /\ \E m \in ModelPool :
       /\ selectedModelName' = [selectedModelName EXCEPT !["generator"] = m]
       /\ model' = InizializeModel(model, "generator", m)
  /\ UNCHANGED << orchRest, hostVars >>

\* optimize_prompt(company_name, feedback, current_prompt, scraping_results);
\* before inizialize_model has run, self.model is missing and the attribute
\* error is caught like any failure of the model call
OptimizePrompt ==
  /\ SumFn(optCalls, OptCompanies) < MaxOptCalls
  /\ \E c \in OptCompanies, sr \in ScrapingResults, a \in ModelAnswers :
       LET cnt == IncrementCounter(optimization_counter, c)
           n == Get(cnt, c)
           invoked == model["generator"] # "unset"
           \* without a handle `self.model` raises AttributeError inside the try
           ans == IF invoked THEN a ELSE [NoAnswer EXCEPT !.kind = "raises"]
           opt == Strip(ans)
           accepted == ans.kind = "text" /\ AcceptRewrite(opt)
       IN  /\ optimization_counter' = cnt
           /\ optCalls' = [optCalls EXCEPT ![c] = @ + 1]
           /\ IF ShortCircuit(n)
                THEN /\ optLast' = [company |-> c, counter |-> n, invoked |-> FALSE,
                                    results |-> sr, answer |-> NoAnswer,
                                    returned |-> GenerateScrapingBasedPrompt(c, sr)]
                     /\ UNCHANGED << company_specific_prompts, optModelCalls >>
                ELSE /\ optModelCalls' =
                          IF invoked THEN [optModelCalls EXCEPT ![c] = @ + 1]
                          ELSE optModelCalls
                     /\ company_specific_prompts' =
                          IF accepted
                            THEN SetItem(company_specific_prompts, c, RewritePrompt(opt))
                            ELSE company_specific_prompts
                     /\ optLast' = [company |-> c, counter |-> n, invoked |-> invoked,
                                    results |-> sr, answer |-> ans,
                                    returned |-> IF accepted THEN RewritePrompt(opt)
                                                 ELSE GenerateScrapingBasedPrompt(c, sr)]
  /\ UNCHANGED << orchVars, valVars, finderVars, batchVars, genVars, mainVars >>

\* the services are exercised next to an orchestrator at rest
InitHost ==
  /\ InitOrchestrator
  /\ scraperMaxRetries = MaxRetries
  /\ modelMaxRetries = MaxRetries
  /\ InitOptimize
  /\ InitFinder

InitServices ==
  /\ InitHost
  /\ InitValidator
  /\ InitBatch
  /\ InitGenerate
  /\ InitMain

NextOptimize ==
  \/ OptInizializeModel
  \/ OptimizePrompt

SpecOptimize == InitServices /\ [][NextOptimize]_vars

\* ------------------------------------------ ResultValidator.validate_result
\* json.loads of a token text: an empty object, a verdict object, a number,
\* or JSONDecodeError
JsonLoads(t) ==
  CASE t = << "{", "}" >> -> PyDict(<< >>)
    [] t = << "{", "kv", "}" >> -> PyDict(ModelVerdict)
    [] t = << "7" >> -> NonDict
    [] t = << "0" >> -> PyZero
    [] OTHER -> JsonError

\* re.search(r"({[\s\S]*})", text) finds something
JsonPatternMatches(t) ==
  \E i, j \in 1..Len(t) : i < j /\ t[i] = "{" /\ t[j] = "}"

\* group(1): from the first "{" to the last "}" (the star is greedy)
JsonPatternGroup(t) ==
  LET first == CHOOSE i \in 1..Len(t) : t[i] = "{" /\ \A k \in 1..(i - 1) : t[k] # "{"
      last == CHOOSE j \in 1..Len(t) : t[j] = "}" /\ \A k \in (j + 1)..Len(t) : t[k] # "}"
  IN  SubSeq(t, first, last)

\* _extract_json_from_text: JSONDecodeError becomes None
ExtractJsonFromText(t) ==
  LET v == IF JsonPatternMatches(t) THEN JsonLoads(JsonPatternGroup(t)) ELSE JsonLoads(t)
  IN  IF v.kind = "error" THEN PyNone ELSE v

\* `not validation_result`
Falsy(v) == v.kind \in {"none", "zero"} \/ (v.kind = "dict" /\ v.items = << >>)

ParseFailureVerdict ==
  PyDict(DefaultVerdict("Unable to parse the validation response", "Retry with a clearer prompt"))
NoResponseVerdict ==
  PyDict(DefaultVerdict("Errore API Gemini: Nessuna risposta ricevuta", "Verifica la connessione e riprova"))
ExceptionVerdict ==
  PyDict(DefaultVerdict("Error during validation: e", "Check the connection and try again"))

\* variant: the extracted value is returned as it is
ValidationVerdictNoDefault(v) == v

\* the `if response:` branch after the extraction: a falsy value is replaced
\* by the default, .get on a truthy non-dict raises AttributeError into the
\* handler, a non-empty dict is returned
ValidationVerdict(v) ==
  IF Falsy(v) THEN ParseFailureVerdict
  ELSE IF v.kind # "dict" THEN ExceptionVerdict
  ELSE v

\* variant: a failed model call is tried again
GenerateContentCallsRetry(built, a) ==
  IF ~built THEN 0 ELSE IF a.kind = "raises" THEN 2 ELSE 1

\* generate_content calls of one validate_result: the one at line 59, reached
\* when genai.GenerativeModel(self.model_name) did not raise
GenerateContentCalls(built, a) == IF built THEN 1 ELSE 0

\* validate_result(company_name, source_type, scraping_result) for a dict
\* scraping_result, applied to the answer the provider holds ready
ValidateResult ==
  /\ ~valLast.called
  /\ LET built == valLast.built
         a == valLast.answer
     IN  valLast' =
           [valLast EXCEPT
              !.called = TRUE,
              !.modelCalls = GenerateContentCalls(built, a),
              !.verdict =
                IF ~built \/ a.kind \in {"raises", "text_raises", "text_none"}
                  THEN ExceptionVerdict
                ELSE IF a.kind = "falsy" THEN NoResponseVerdict
                ELSE ValidationVerdict(ExtractJsonFromText(a.text))]
  /\ UNCHANGED << orchVars, optVars, finderVars, batchVars, genVars, mainVars >>

\* the inputs of one validate_result call: whether the model handle can be
\* built for the configured model_name, and what the provider answers
InitValidate ==
  /\ InitHost
  /\ InitBatch
  /\ InitGenerate
  /\ InitMain
  /\ \E b \in BOOLEAN, a \in ValidationAnswers \cup {NoValAnswer} :
       /\ b <=> a # NoValAnswer
       /\ valLast = [NoValidation EXCEPT !.built = b, !.answer = a]

NextValidate == ValidateResult

SpecValidate == InitValidate /\ [][NextValidate]_vars

\* -------------------------- FinancialSourcesFinder.find_financial_source
\* tuples scrape_financial_sources returns (each is a value of `ret` the
\* orchestrator above reaches): the sentinel, an accepted lookup candidate, a
\* dead synthesized candidate, and accepted lookup candidates of two and of
\* five fields
ScrapeTuples ==
  { Sentinel,
    Values(SetItem(StdDict("u1"), "response_status", PageFound)),
    FinalResult(PyDict(SetItem(StdDict("u1"), "response_status", PageNotFound))),
    Values(SetItem(<< <<"url", "u1">>, <<"year", "2023">> >>, "response_status", PageFound)),
    Values(SetItem(Append(StdDict("u2"), <<"extra", "x">>), "response_status", PageFound)) }

\* a call of scrape_financial_sources returns a tuple or raises
ScrapeOutcomes ==
  { [kind |-> "returns", value |-> t] : t \in ScrapeTuples }
  \cup { [kind |-> "raises", value |-> << >>] }

\* url, year, confidence, source_description, page_status = <tuple>, then the
\* scraping_result dict in the order its literal gives
ScrapingResultOf(t) ==
  << <<"url", t[1]>>, <<"year", t[2]>>, <<"source_description", t[4]>>,
     <<"confidence", t[3]>>, <<"page_status", t[5]>> >>

\* the list read from the report file; a missing file gives the empty list
LoadReport(f) == IF f.kind = "list" THEN f.items ELSE << >>

\* variant: one more record is let in
ReRunGuardLate(f) == f.kind # "absent" /\ Len(LoadReport(f)) > ReportGuard + 1

\* `if report_path.exists(): ... if len(data) > 5: return data`
ReRunGuard(f) == f.kind # "absent" /\ Len(LoadReport(f)) > ReportGuard

\* the body of find_financial_source(c, source_type)
FindFinancialSourceFor(c) ==
  IF ReRunGuard(reports[c])
    THEN /\ findLast' = [kind |-> "list", scraped |-> FALSE,
                         value |-> LoadReport(reports[c])]
         /\ UNCHANGED reports
    ELSE \E o \in ScrapeOutcomes :
           IF o.kind = "raises" \/ Len(o.value) # 5
             THEN \* the exception of the scrape, or the ValueError of
                  \* the unpacking, leaves the call
                  /\ findLast' = [kind |-> "raised", scraped |-> TRUE, value |-> << >>]
                  /\ UNCHANGED reports
             ELSE LET rec == ScrapingResultOf(o.value)
                  IN  /\ reports' = [reports EXCEPT
                                       ![c] = ListFile(Append(LoadReport(reports[c]), rec))]
                      /\ findLast' = [kind |-> "record", scraped |-> TRUE,
                                      value |-> << rec >>]

\* find_financial_source(company_name, source_type)
FindFinancialSource ==
  /\ \E c \in Companies : FindFinancialSourceFor(c)
  /\ UNCHANGED << orchVars, optVars, valVars, batchVars, genVars, mainVars >>

NextFinder == FindFinancialSource

SpecFinder == InitServices /\ [][NextFinder]_vars

\* ------------------------------------------------------------- main
\* the names a five-way tuple assignment binds when its right-hand side is
\* the iterable v: a dict (a sequence of <<key, value>> pairs here) yields
\* its keys
DictKeys(d) == [i \in 1..Len(d) |-> d[i][1]]

\* `url, value, currency, refyear, page_status = <dict>`
UnpackFive(d) == DictKeys(d)

\* the report dict of lines 71-82 for the names bound by the unpacking
ReportEntry(id, name, variable, bound) ==
  << << "ID", id >>, << "NAME", name >>, << "VARIABLE", variable >>,
     << "VALUE", bound[2] >>, << "CURRENCY", bound[3] >>, << "REFYEAR", bound[4] >>,
     << "SRC", bound[1] >>, << "Page Status", bound[5] >> >>

\* `isinstance(data, list) and len(data) > 5` on main's own report file
MainSkips(f) == f.kind = "list" /\ Len(f.items) > ReportGuard

\* one iteration of `for row in df.itertuples()`; an exception ends main
MainRow ==
  /\ mainLast.kind # "raised"
  /\ \E id \in RowIds, c \in Companies, variable \in RowVariables :
       IF MainSkips(mainFile)
         THEN /\ mainLast' = [kind |-> "skipped", id |-> id, entry |-> << >>]
              /\ UNCHANGED << mainFile, finderVars >>
         ELSE /\ FindFinancialSourceFor(c)
              /\ IF findLast'.kind = "raised"
                   THEN \* the exception of find_financial_source leaves main
                        /\ mainLast' = [kind |-> "raised", id |-> id, entry |-> << >>]
                        /\ UNCHANGED mainFile
                   ELSE IF findLast'.kind = "list"
                   THEN \* six or more records cannot be unpacked five ways
                        /\ mainLast' = [kind |-> "raised", id |-> id, entry |-> << >>]
                        /\ UNCHANGED mainFile
                   ELSE LET entry == ReportEntry(id, c, variable, UnpackFive(findLast'.value[1]))
                        IN  IF mainFile.kind = "list" /\ Len(mainFile.items) >= ReportGuard + 1
                              THEN /\ mainLast' = [kind |-> "skipped", id |-> id, entry |-> << >>]
                                   /\ UNCHANGED mainFile
                              ELSE /\ mainFile' = ListFile(Append(LoadReport(mainFile), entry))
                                   /\ mainLast' = [kind |-> "appended", id |-> id, entry |-> entry]
  /\ UNCHANGED << orchVars, optVars, valVars, batchVars, genVars >>

NextMain == MainRow

SpecMain == InitServices /\ [][NextMain]_vars

\* ------------------------------------------------ requests of one batch
\* FinancialSourcesFinder.__init__ builds one WebScraperModule, whose __init__
\* builds one PromptGenerator: every request of a batch calls
\* self.scraper.prompt_generator.call, and so selected_model_name and model
\* below are the one generator's attributes.  A request in flight is at the
\* head of call (idle), inside its retry loop (call) or past it (done).
\* process_companies_batch documents the batch as processed in parallel and
\* main parses --threads; their loops as shipped start a request only after
\* the previous one has returned, so the interleavings of two requests
\* explored here are those of workers sharing the finder, as the batch is
\* documented, not ones the sequential loops produce.

\* call's entry for request w: retries = 0, inizialize_model()
WorkerBegin(w) ==
  /\ wpc[w] = "idle"
  /\ \E m \in ModelPool :
       /\ selectedModelName' = [selectedModelName EXCEPT !["generator"] = m]
       /\ model' = InizializeModel(model, "generator", m)
       /\ wSel' = [wSel EXCEPT ![w] = m]
  /\ wRetries' = [wRetries EXCEPT ![w] = 0]
  /\ wpc' = [wpc EXCEPT ![w] = "call"]
  /\ UNCHANGED << orchRest, optVars, valVars, finderVars, wUsed, genVars, mainVars >>

\* one iteration of request w's retry loop: self.model.generate_content(prompt)
WorkerAttempt(w) ==
  /\ wpc[w] = "call"
  /\ wRetries[w] < modelMaxRetries
  /\ wUsed' = [wUsed EXCEPT ![w] = model["generator"]]
  /\ \E outcome \in {"response", "quota", "falsy", "error"} :
       IF AttemptDisposition(outcome) \in {"return", "break"}
         THEN /\ wpc' = [wpc EXCEPT ![w] = "done"]
              /\ UNCHANGED wRetries
         ELSE /\ wRetries' = [wRetries EXCEPT ![w] = wRetries[w] + 1]
              /\ UNCHANGED wpc
  /\ UNCHANGED << orchVars, optVars, valVars, finderVars, wSel, genVars, mainVars >>

\* request w's loop ends with retries = max_retries: return None
WorkerExhausted(w) ==
  /\ wpc[w] = "call"
  /\ ~(wRetries[w] < modelMaxRetries)
  /\ wpc' = [wpc EXCEPT ![w] = "done"]
  /\ UNCHANGED << orchVars, optVars, valVars, finderVars, wSel, wUsed, wRetries, genVars, mainVars >>

\* the worker takes the next request of the batch
WorkerTake(w) ==
  /\ wpc[w] = "done"
  /\ wpc' = [wpc EXCEPT ![w] = "idle"]
  /\ wSel' = [wSel EXCEPT ![w] = "unset"]
  /\ wUsed' = [wUsed EXCEPT ![w] = "unset"]
  /\ wRetries' = [wRetries EXCEPT ![w] = 0]
  /\ UNCHANGED << orchVars, optVars, valVars, finderVars, genVars, mainVars >>

\* ------------------------------------------ PromptGenerator.generate_prompt
\* str.lower on the characters that occur in the names explored
LowerChar(ch) ==
  CASE ch = "S" -> "s" [] ch = "A" -> "a" [] ch = "P" -> "p" [] ch = "B" -> "b"
    [] ch = "K" -> "k" [] ch = "O" -> "o"
    [] OTHER -> ch

Lower(str) == [i \in 1..Len(str) |-> LowerChar(str[i])]

\* `key in name` on strings
IsSubstring(k, n) ==
  \E i \in 0..(Len(n) - Len(k)) : SubSeq(n, i + 1, i + Len(k)) = k

\* known_info, in the order of the dict literal: the entries "sap" (line 286),
\* "bmw" (289), "kone" (306) and "konecranes" (385) of its 196; no two keys
\* of the literal are equal, and "kone"/"konecranes" is its one pair where a
\* key contains another
KnownInfo ==
  << [key |-> << "s", "a", "p" >>,
      hint |-> "Azienda Tedesca (SE). Cerca 'Investor Relations' sul sito sap.com."],
     [key |-> << "b", "m", "w" >>,
      hint |-> "Bayerische Motoren Werke AG. Azienda Tedesca. Cerca 'Investor Relations'."],
     [key |-> << "k", "o", "n", "e" >>,
      hint |-> "Azienda Finlandese (Oyj). Cerca 'Investors'."],
     [key |-> << "k", "o", "n", "e", "c", "r", "a", "n", "e", "s" >>,
      hint |-> "Azienda Finlandese (Oyj). Cerca 'Investors'."] >>

\* `for key, value in known_info.items(): if key in name: return value`
\* from entry i on; None when the loop ends
RECURSIVE ScanKnownInfo(_, _)
ScanKnownInfo(n, i) ==
  IF i > Len(KnownInfo) THEN NoneV
  ELSE IF IsSubstring(KnownInfo[i].key, n) THEN KnownInfo[i].hint
  ELSE ScanKnownInfo(n, i + 1)

\* variant: the last matching entry wins
GetCompanyAdditionalInfoLastMatch(company_name) ==
  LET ms == { i \in 1..Len(KnownInfo) : IsSubstring(KnownInfo[i].key, Lower(company_name)) }
  IN  IF ms = {} THEN NoneV
      ELSE KnownInfo[CHOOSE i \in ms : \A j \in ms : j <= i].hint

\* _get_company_additional_info
GetCompanyAdditionalInfo(company_name) ==
  ScanKnownInfo(Lower(company_name), 1)

\* generate_prompt: the base template filled with the name as given, the
\* category, and the optimization text ("" or the hint behind its label)
GeneratePrompt(company_name, source_type) ==
  LET company_info == GetCompanyAdditionalInfo(company_name)
      optimization_text == IF company_info \notin {NoneV, ""} THEN company_info ELSE ""
  IN  [kind |-> "base", company |-> company_name, source_type |-> source_type,
       optimization |-> optimization_text]

\* one generate_prompt call on a generator whose counters and stored prompts
\* are what earlier optimize_prompt calls left
GeneratePromptCall ==
  /\ ~genLast.called
  /\ genLast' = [genLast EXCEPT !.called = TRUE,
                                !.prompt = GeneratePrompt(genLast.company, genLast.source_type)]
  /\ UNCHANGED << orchVars, optVars, valVars, finderVars, batchVars, mainVars >>

\* counters and stored prompts optimize_prompt leaves behind
LeftCounters ==
  { << >>,
    << << "Acme Corp", 1 >> >>,
    << << "Acme Corp", MaxOptimizations + 1 >>, << "Globex", 2 >> >> }

LeftPrompts ==
  { << >>,
    << << "Acme Corp", RewritePrompt([kind |-> "text", body |-> MinPromptLen, pad |-> 0, placeholder |-> TRUE]) >> >> }

\* the arguments of one generate_prompt call and the generator it is made on
InitGeneratePrompt ==
  /\ InitOrchestrator
  /\ scraperMaxRetries = MaxRetries
  /\ modelMaxRetries = MaxRetries
  /\ InitValidator
  /\ InitFinder
  /\ InitBatch
  /\ InitMain
  /\ optimization_counter \in LeftCounters
  /\ company_specific_prompts \in LeftPrompts
  /\ optCalls = [c \in OptCompanies |-> 0]
  /\ optModelCalls = [c \in OptCompanies |-> 0]
  /\ optLast = NoOptCall
  /\ \E c \in CompanyNames, st \in SourceTypes :
       genLast = [NoGenerate EXCEPT !.company = c, !.source_type = st]

NextGeneratePrompt == GeneratePromptCall

SpecGeneratePrompt == InitGeneratePrompt /\ [][NextGeneratePrompt]_vars

NextBatch ==
  \E w \in Workers :
    \/ WorkerBegin(w)
    \/ WorkerAttempt(w)
    \/ WorkerExhausted(w)
    \/ WorkerTake(w)

SpecBatch == InitServices /\ [][NextBatch]_vars

\* ================================================================== claims
\* dead as the GET outcome itself says it, independently of the probe's answer
RawDead(pr) == pr.exc \/ pr.status \in {403, 404}

SumSeq(q) ==
  LET F[i \in 0..Len(q)] == IF i = 0 THEN 0 ELSE F[i - 1] + q[i]
  IN  F[Len(q)]

\* C1: a discovery call returns normally, without raising, for every
\* max_retries and every combination of collaborator outcomes.
C1_NeverRaises == pc # "raised"

\* C2: when both strategies are exhausted (no url probed alive during the
\* call), the returned value is the sentinel (None, None, None, None,
\* "Page not found"), never the fields of a candidate that probed dead.
C2_ExhaustedReturnsSentinel ==
  (pc = "returned" /\ aliveUrls = {}) => ret = Sentinel

\* C3: a returned result whose status is "Page found" is the value tuple of a
\* candidate whose url entry is non-empty and is the url the probe answered
\* alive for during this call, on the lookup path and on the synthesis path.
C3_FoundHasLiveUrl ==
  (pc = "returned" /\ ret[Len(ret)] = PageFound) =>
    /\ ret = Values(retData)
    /\ Get(retData, "url") \notin {NoneV, ""}
    /\ lastProbe.url = Get(retData, "url")
    /\ ~RawDead(lastProbe)

C3_Witness_AiPath ==
  /\ pc = "returned"
  /\ ret[Len(ret)] = PageFound
  /\ synthAttempts = 0
  /\ aiAttempts = 2

C3_Witness_SynthPath ==
  /\ pc = "returned"
  /\ ret[Len(ret)] = PageFound
  /\ synthAttempts = 2

C5_QuotaExhaustion ==
  (pc = "after_call" /\ \A i \in 1..Len(callLog) : callLog[i].outcome = "quota") =>
    /\ Len(callLog) = modelMaxRetries
    /\ Len(sleepLog) = modelMaxRetries
    /\ \A i \in 1..Len(sleepLog) :
         sleepLog[i] = IF callLog[i].delay.kind = "seconds"
                         THEN callLog[i].delay.seconds ELSE 60
    /\ SumSeq(sleepLog) =
         SumSeq([i \in 1..Len(callLog) |->
                   IF callLog[i].delay.kind = "seconds"
                     THEN callLog[i].delay.seconds ELSE 60])
    /\ callResult = NoResponse

C5_Witness ==
  /\ pc = "after_call"
  /\ modelMaxRetries = 2
  /\ Len(callLog) = 2
  /\ \A i \in 1..2 : callLog[i].outcome = "quota"
  /\ callLog[1].delay.kind = "seconds"
  /\ callLog[2].delay.kind = "absent"
  /\ SumSeq(sleepLog) = 67

\* C6: a provider attempt that fails with anything but quota-exceeded ends the
\* call at once with None: it is the last attempt, and no sleep follows it,
\* whatever retry budget is left.
C6_OtherFailureAborts ==
  \A i \in 1..Len(callLog) :
    callLog[i].outcome = "error" =>
      /\ i = Len(callLog)
      /\ pc = "after_call"
      /\ callResult = NoResponse
      /\ Len(sleepLog) = Cardinality({j \in 1..Len(callLog) : callLog[j].outcome = "quota"})

C6_Witness ==
  /\ pc = "after_call"
  /\ modelMaxRetries = 2
  /\ Len(callLog) = 1
  /\ callLog[1].outcome = "error"
  /\ sleepLog = << >>

\* C7: a second or later provider attempt of a call happens only right after
\* an attempt that signalled quota-exceeded; a response, a falsy response or
\* another failure is never followed by an attempt.
C7_RetryOnlyAfterQuota ==
  \A i \in 2..Len(callLog) : callLog[i - 1].outcome = "quota"

\* C8: within one call the model identifier is selected once, before the first
\* attempt, and every provider attempt of the call uses that identifier.
C8_OneModelPerCall ==
  (pc \in {"call", "after_call"}) =>
    /\ selections = 1
    /\ selectedModelName[callee] \in ModelPool
    /\ \A i \in 1..Len(callLog) : callLog[i].model = selectedModelName[callee]

C8_Witness ==
  /\ pc = "call"
  /\ Len(callLog) = 2
  /\ callee = "tuner"
  /\ selectedModelName["tuner"] # selectedModelName["generator"]

\* C9: is_page_not_found answers dead exactly when the GET answered 403 or
\* 404 or raised a transport-level exception, alive for every other status
\* code, and a probe never makes the discovery call raise.
C9_ProbeDeadIff ==
  /\ [](lastProbe # NoProbe =>
          (lastProbe.dead <=> (lastProbe.exc \/ lastProbe.status \in {403, 404})))
  /\ [][(pc \in {"ai_probe", "synth_probe"}) => (pc' # "raised")]_vars

C9_Witness ==
  /\ lastProbe.status = 403
  /\ lastProbe.dead
  /\ pc = "ai_head"

\* C10: when the synthesized routine runs without raising and binds `result`
\* to a mapping M, the runner returns exactly M: same keys, same values, same
\* order, nothing added or removed.
C10_RunnerReturnsBinding ==
  (pc = "synth_got" /\ ranRoutine.beh = "binddict") =>
    runnerResult = PyDict(ranRoutine.items)

C10_Witness ==
  /\ pc = "synth_got"
  /\ ranRoutine.beh = "binddict"
  /\ Len(ranRoutine.items) = 5
  /\ runnerResult.kind = "dict"

C12_NonDictIsNone ==
  (pc = "synth_got" /\ runFault = "ran" /\ ranRoutine.beh \in {"nobind", "bindnondict"}) =>
    runnerResult = PyNone

\* C13: for each company the first five optimize_prompt calls may reach the
\* model; the sixth and every later call returns the prompt derived from the
\* scraping results and makes no model call, so at most five calls per
\* company reach the model.
C13_AtMostFiveModelCalls ==
  /\ [](\A c \in OptCompanies : optModelCalls[c] <= 5)
  /\ [](optLast.counter >= 6 =>
          /\ ~optLast.invoked
          /\ optLast.returned = GenerateScrapingBasedPrompt(optLast.company, optLast.results))
  /\ [][\A c \in OptCompanies :
          (optCalls'[c] > optCalls[c] /\ optCalls'[c] >= 6) => optModelCalls' = optModelCalls]_vars

C13_Witness ==
  \E c \in OptCompanies :
    /\ optModelCalls[c] = 5
    /\ optCalls[c] = 7
    /\ optLast.company = c
    /\ optLast.returned.kind = "scraping_based"

\* C14 as stated: the per-company optimization counter never exceeds 5.
C14_CounterAtMostFive ==
  \A i \in 1..Len(optimization_counter) : optimization_counter[i][2] <= 5

\* C14 amended: the counter of a company equals the number of optimize_prompt
\* calls made for it (so it passes 5 at the sixth call), and it is at most 5
\* at every call that reaches the model.
C14_CounterCountsCalls ==
  /\ \A c \in OptCompanies :
       IF HasKey(optimization_counter, c)
         THEN Get(optimization_counter, c) = optCalls[c]
         ELSE optCalls[c] = 0
  /\ optLast.invoked => optLast.counter \in 1..5

C14_Witness ==
  \E c \in OptCompanies :
    /\ HasKey(optimization_counter, c)
    /\ Get(optimization_counter, c) = 7
    /\ optModelCalls[c] = 5

\* C15: on a call that is not short-circuited the rewrite is returned exactly
\* when its stripped text has at least 100 characters and contains the
\* placeholder; otherwise (too short, no placeholder, failed model call) the
\* prompt derived from the scraping results is returned.
C15_RewriteIffValid ==
  (optLast.company # "" /\ optLast.counter <= 5) =>
    LET a == optLast.answer
        good == a.kind = "text" /\ a.body >= 100 /\ a.placeholder
    IN  /\ optLast.returned.kind = "rewrite" <=> good
        /\ good => (optLast.returned.body = a.body /\ optLast.returned.placeholder)
        /\ ~good => optLast.returned =
                      GenerateScrapingBasedPrompt(optLast.company, optLast.results)

C15_Witness ==
  /\ optLast.counter = 5
  /\ optLast.returned.kind = "rewrite"
  /\ optLast.answer.pad = 1
  /\ HasKey(company_specific_prompts, optLast.company)

\* a JSON object can be decoded from some span of the text
HasDecodableObject(t) ==
  \E i, j \in 1..Len(t) : i <= j /\ JsonLoads(SubSeq(t, i, j)).kind = "dict"

IsDefaultVerdict(v) ==
  /\ v.kind = "dict"
  /\ HasKey(v.items, "is_valid") /\ Get(v.items, "is_valid") = FALSE
  /\ HasKey(v.items, "validation_score") /\ Get(v.items, "validation_score") = 0
  /\ HasKey(v.items, "feedback") /\ Get(v.items, "feedback") # ""

\* C16: validate_result always returns a mapping, never None; when the model
\* raises, gives no response, or gives text from which no JSON object can be
\* decoded, it returns the default verdict: is_valid false, validation_score
\* 0, a non-empty feedback.
C16_AlwaysVerdict ==
  valLast.called =>
    /\ valLast.verdict.kind = "dict"
    /\ ( \/ ~valLast.built
         \/ valLast.answer.kind \in {"raises", "falsy", "text_raises", "text_none"}
         \/ (valLast.answer.kind = "text" /\ ~HasDecodableObject(valLast.answer.text)) )
       => IsDefaultVerdict(valLast.verdict)

C16_Witness ==
  /\ valLast.called
  /\ valLast.answer.kind = "text"
  /\ Len(valLast.answer.text) = MaxTextLen
  /\ ~HasDecodableObject(valLast.answer.text)
  /\ JsonPatternMatches(valLast.answer.text)
  /\ valLast.verdict = ParseFailureVerdict

\* C17: one validate_result call makes exactly one generate_content call once
\* its model handle is built, and never more than one: a failed or
\* unparseable answer is not retried.
C17_OneModelCall ==
  valLast.called =>
    /\ valLast.modelCalls <= 1
    /\ valLast.built => valLast.modelCalls = 1

C17_Witness ==
  /\ valLast.called
  /\ valLast.built
  /\ valLast.answer.kind = "raises"
  /\ valLast.modelCalls = 1
  /\ valLast.verdict = ExceptionVerdict

\* C18: a find_financial_source call for a company with six or more
\* persisted records does no discovery and leaves the list as it is, so the
\* list never grows beyond six records.
C18_ReRunGuard ==
  /\ [](\A c \in Companies : Len(LoadReport(reports[c])) <= 6)
  /\ [][\A c \in Companies :
          (reports[c].kind = "list" /\ Len(reports[c].items) >= 6) =>
            (reports'[c] = reports[c] /\ ~findLast'.scraped)]_vars

C18_Witness ==
  \E c \in Companies :
    /\ Len(LoadReport(reports[c])) = 6
    /\ findLast.kind = "list"
    /\ ~findLast.scraped

\* C19: every find_financial_source call the guard does not skip appends
\* exactly one record to the company's list and leaves the earlier records
\* as they were.
C19_AppendsExactlyOne ==
  [][\A c \in Companies :
       ~(reports[c].kind = "list" /\ Len(reports[c].items) >= 6) =>
         /\ reports'[c].kind = "list"
         /\ Len(reports'[c].items) = Len(LoadReport(reports[c])) + 1
         /\ SubSeq(reports'[c].items, 1, Len(LoadReport(reports[c]))) = LoadReport(reports[c])]_vars

\* C20: a find_financial_source call returns at most one candidate record,
\* never a collection of several.
C20_AtMostOneResult == Len(findLast.value) <= 1

C22_TerminatesByReturn ==
  /\ <>(pc = "returned")
  /\ [](/\ aiAttempts <= scraperMaxRetries
        /\ synthAttempts <= scraperMaxRetries
        /\ Len(callLog) <= modelMaxRetries)

\* what does hold of C22: the call ends, by a return or by an exception that
\* leaves it, within the attempt bounds
C22_EndsWithinBounds ==
  /\ <>(pc \in {"returned", "raised"})
  /\ [](/\ aiAttempts <= scraperMaxRetries
        /\ synthAttempts <= scraperMaxRetries
        /\ Len(callLog) <= modelMaxRetries)

\* the entries of known_info whose key occurs in the lower-cased name
MatchingEntries(company_name) ==
  { i \in 1..Len(KnownInfo) : IsSubstring(KnownInfo[i].key, Lower(company_name)) }

\* C23: generate_prompt appends the hint of the first entry, in table order,
\* whose key is a substring of the lower-cased company name, appends nothing
\* when no key matches, and leaves the optimization counters and the stored
\* company-specific prompts as they were
C23_FirstMatchAndPure ==
  /\ [](genLast.called =>
          LET ms == MatchingEntries(genLast.company)
          IN  /\ genLast.prompt.company = genLast.company
              /\ genLast.prompt.source_type = genLast.source_type
              /\ IF ms = {}
                   THEN genLast.prompt.optimization = ""
                   ELSE genLast.prompt.optimization =
                          KnownInfo[CHOOSE i \in ms : \A j \in ms : i <= j].hint)
  /\ [][(~genLast.called /\ genLast'.called) =>
          UNCHANGED << optimization_counter, company_specific_prompts >>]_vars

\* a name in mixed case that holds two keys, the later entry's key first,
\* given to a generator with counters and a stored prompt
C23_Witness ==
  /\ genLast.called
  /\ genLast.company = << "B", "m", "w", "S", "A", "P" >>
  /\ genLast.prompt.optimization = KnownInfo[1].hint
  /\ optimization_counter # << >>
  /\ company_specific_prompts # << >>

\* a name no key occurs in
C23_Witness_NoMatch ==
  /\ genLast.called
  /\ MatchingEntries(genLast.company) = {}
  /\ genLast.prompt.optimization = ""

\* the fallback loop's last probe answered alive
LiveSynth == synthAttempts >= 1 /\ lastProbe # NoProbe /\ ~lastProbe.dead

\* C24: synthesis starts only after max_retries lookup attempts, none of
\* them accepted; no lookup attempt follows a synthesis attempt; at most
\* max_retries synthesis attempts are made; every synthesized candidate (a
\* dict the routine bound) is probed; no synthesis attempt follows a candidate that probed alive, and
\* that candidate, tagged, is what the call returns
C24_StrategyOrdering ==
  /\ [](/\ synthAttempts >= 1 => aiAttempts = scraperMaxRetries
        /\ synthAttempts <= scraperMaxRetries
        /\ (pc = "returned" /\ LiveSynth) => ret = Values(data.items))
  /\ [][/\ synthAttempts >= 1 => aiAttempts' = aiAttempts
        /\ LiveSynth => synthAttempts' = synthAttempts
        /\ (pc = "synth_got" /\ runnerResult.kind = "dict") => pc' = "synth_probe"]_vars

\* what does hold of C24: the ordering and the bounds, the probe of every
\* candidate, and the end of the loop at the first live one, which is the
\* result only when it has four fields
C24_OrderingHolds ==
  /\ [](/\ synthAttempts >= 1 => aiAttempts = scraperMaxRetries
        /\ synthAttempts <= scraperMaxRetries
        /\ (pc = "returned" /\ LiveSynth) =>
             ret = IF Len(data.items) = 5 THEN Values(data.items) ELSE Sentinel)
  /\ [][/\ synthAttempts >= 1 => aiAttempts' = aiAttempts
        /\ LiveSynth => synthAttempts' = synthAttempts
        /\ (pc = "synth_got" /\ runnerResult.kind = "dict") => pc' = "synth_probe"]_vars

\* C25: the first lookup attempt sends the base prompt; every later attempt
\* sends a tuned prompt that embeds the company name and the url the attempt
\* before it produced and the probe found dead, whatever that attempt's
\* response was
C25_TunedPromptFromPreviousDeadUrl ==
  [][(pc = "ai_head" /\ pc' = "call") =>
       IF attempt = 0
         THEN prompt'.kind = "base" /\ prompt'.company = company
         ELSE /\ prompt'.kind = "tuned"
              /\ prompt'.company = company
              /\ lastProbe # NoProbe
              /\ lastProbe.dead
              /\ prompt'.url = lastProbe.url]_vars

\* what does hold of C25: the first prompt is the base prompt, every later
\* one is tuned and embeds the company name and the current value of `url`,
\* which is the previous attempt's dead url only if that attempt got to one
C25_TunedPromptFromUrlVariable ==
  [][(pc = "ai_head" /\ pc' = "call") =>
       IF attempt = 0
         THEN prompt'.kind = "base" /\ prompt'.company = company
         ELSE /\ prompt'.kind = "tuned"
              /\ prompt'.company = company
              /\ prompt'.url = url
              /\ lastProbe # NoProbe => (lastProbe.dead /\ lastProbe.url = url)]_vars

\* the candidate the call accepted: a dict tagged "Page found"
AcceptedCandidate ==
  /\ pc = "returned"
  /\ data.kind = "dict"
  /\ HasKey(data.items, "response_status")
  /\ Get(data.items, "response_status") = PageFound

\* C26: for every accepted candidate, on the lookup path and on the
\* synthesis path, the returned tuple is all the candidate's top-level
\* values in field order followed by the status tag, extra keys included
C26_AcceptedForwardedWhole ==
  AcceptedCandidate =>
    /\ ret = Values(data.items)
    /\ ret[Len(ret)] = PageFound

\* what does hold of C26: the lookup path forwards every value; the
\* synthesis path forwards the values of a four-field candidate and returns
\* the sentinel for any other
C26_ForwardedByPath ==
  AcceptedCandidate =>
    IF synthAttempts = 0 \/ Len(data.items) = 5
      THEN ret = Values(data.items) /\ ret[Len(ret)] = PageFound
      ELSE ret = Sentinel

\* C27: every value scrape_financial_sources returns has exactly five
\* components
C27_AlwaysFiveComponents ==
  pc = "returned" => Len(ret) = 5

\* what does hold of C27: the fallback path and exhaustion return five
\* components; an accepted lookup candidate returns one per field plus the tag
C27_FiveOnFallbackOnly ==
  pc = "returned" =>
    IF synthAttempts = 0 /\ AcceptedCandidate
      THEN Len(ret) = Len(retData) /\ Len(retData) = Len(data.items)
      ELSE Len(ret) = 5

\* C28: the prompts of the lookup loop do not depend on the requested
\* category: the first is the base prompt of the company rendered for
\* "Annual Report", every later one the tuned prompt of the company and the
\* current url, whatever source_type the call was given; source_type reaches
\* the synthesis prompt only
C28_LookupPromptsIgnoreCategory ==
  [][(pc # "call" /\ pc' = "call") =>
       IF callPurpose' \in {"base", "tuned"}
         THEN /\ callPurpose' = (IF attempt = 0 THEN "base" ELSE "tuned")
              /\ prompt' = IF attempt = 0
                             THEN [kind |-> "base", company |-> company,
                                   source_type |-> "Annual Report", url |-> ""]
                             ELSE [kind |-> "tuned", company |-> company,
                                   source_type |-> "", url |-> url]
         ELSE /\ callPurpose' = "scrape"
              /\ prompt'.kind = "scrape"
              /\ prompt'.source_type = sourceType]_vars

\* a call for quarterly reports whose lookup prompt asks for the annual one
C28_Witness ==
  /\ pc = "call"
  /\ callPurpose = "base"
  /\ sourceType = "Quarterly Report"
  /\ prompt.source_type = "Annual Report"

\* the same call later on: a tuned lookup prompt, then the synthesis prompt
\* carrying the requested category
C28_Witness_Scrape ==
  /\ pc = "call"
  /\ callPurpose = "scrape"
  /\ sourceType = "Quarterly Report"
  /\ prompt.source_type = "Quarterly Report"
  /\ aiAttempts = 2

\* the count a company's counter stands for (no entry before its first call)
CounterOf(d, c) == IF HasKey(d, c) THEN Get(d, c) ELSE 0

\* C29: every optimize_prompt call for a company, whatever its outcome,
\* raises that company's counter by exactly one and leaves every other
\* company's counter as it was; no step lowers or removes a counter; the
\* stored prompt of a company changes only in a call for that company that
\* accepted a rewrite, and then to that rewrite, no other company's changing
C29_CounterAndPromptFrame ==
  [][/\ \A c \in OptCompanies :
          optCalls'[c] # optCalls[c] =>
            /\ CounterOf(optimization_counter', c) = CounterOf(optimization_counter, c) + 1
            /\ \A o \in OptCompanies \ {c} :
                 /\ HasKey(optimization_counter', o) <=> HasKey(optimization_counter, o)
                 /\ CounterOf(optimization_counter', o) = CounterOf(optimization_counter, o)
     /\ \A c \in OptCompanies :
          /\ HasKey(optimization_counter, c) => HasKey(optimization_counter', c)
          /\ CounterOf(optimization_counter', c) >= CounterOf(optimization_counter, c)
     /\ \A c \in OptCompanies :
          ( \/ HasKey(company_specific_prompts', c) # HasKey(company_specific_prompts, c)
            \/ Get(company_specific_prompts', c) # Get(company_specific_prompts, c) ) =>
            /\ optCalls'[c] = optCalls[c] + 1
            /\ optLast'.company = c
            /\ optLast'.invoked
            /\ optLast'.counter <= 5
            /\ optLast'.answer.kind = "text"
            /\ optLast'.answer.body >= 100
            /\ optLast'.answer.placeholder
            /\ Get(company_specific_prompts', c) = optLast'.returned]_vars

\* both companies called, one with a stored rewrite after a rejected and a
\* short-circuited call, the other's counter and prompt untouched meanwhile
C29_Witness ==
  /\ CounterOf(optimization_counter, "Acme Corp") = 6
  /\ CounterOf(optimization_counter, "Globex") = 1
  /\ HasKey(company_specific_prompts, "Acme Corp")
  /\ ~HasKey(company_specific_prompts, "Globex")
  /\ optLast.company = "Acme Corp"
  /\ optLast.returned.kind = "scraping_based"

\* C30: the record main appends for a processed row has the url of the result
\* find_financial_source returned for that row in SRC, its year in REFYEAR and
\* its page status in "Page Status"
C30_RecordCarriesResult ==
  mainLast.kind = "appended" =>
    LET result == findLast.value[1]
    IN  /\ Get(mainLast.entry, "SRC") = Get(result, "url")
        /\ Get(mainLast.entry, "REFYEAR") = Get(result, "year")
        /\ Get(mainLast.entry, "Page Status") = Get(result, "page_status")

\* what does hold of C30: the appended record carries the result's key names
C30_RecordCarriesKeyNames ==
  mainLast.kind = "appended" =>
    /\ Get(mainLast.entry, "SRC") = "url"
    /\ Get(mainLast.entry, "VALUE") = "year"
    /\ Get(mainLast.entry, "CURRENCY") = "source_description"
    /\ Get(mainLast.entry, "REFYEAR") = "confidence"
    /\ Get(mainLast.entry, "Page Status") = "page_status"
    /\ mainFile.items[Len(mainFile.items)] = mainLast.entry

====
